---- MODULE Spec2Model ----
(***************************************************************************)
(* Model of src/bot.py: the Telegram -> DeepSeek relay bot.                *)
(*                                                                         *)
(*   RateLimiter.check_rate_limit   per-user cooldown with 1-hour sweep    *)
(*   safe_trim                      reply truncation                       *)
(*   call_deepseek_api              the retry loop around the HTTP POST    *)
(*   handle_message                 the handler that sequences the three   *)
(*                                                                         *)
(* Time is counted in milliseconds.  A text is a sequence of one-character *)
(* strings.  An optional value (Python None or a value) is a sequence of   *)
(* length 0 or 1.                                                          *)
(***************************************************************************)
EXTENDS Integers, Sequences, FiniteSets, TLC

\* ------------------------------------------------------------------------
\* Program constants (src/bot.py lines 30-35)
\* ------------------------------------------------------------------------
MAX_INPUT_LENGTH == 2000

MAX_RESPONSE_LENGTH == 4096

\* timedelta(seconds=5), in ms
REQUEST_COOLDOWN == 5 * 1000

MAX_API_RETRIES == 3

\* 1.5 seconds, in ms
API_RETRY_DELAY == 1500

\* timedelta(hours=1) of line 92, in ms
RETENTION == 3600 * 1000

\* ------------------------------------------------------------------------
\* Bounds of the model
\* ------------------------------------------------------------------------
\* number of handler invocations that can be in flight at once
MaxInv == 3

\* longest text of the exhaustive safe_trim inputs
MaxLen == 7

\* largest max_len of the exhaustive safe_trim inputs
MaxN == 7

Invocations == 1..MaxInv

Users == {"u1", "u2"}

\* the instants datetime.now() is sampled at
Times == {0, 1500, 4500, 4999, 5000, RETENTION, RETENTION + 5000}

None == <<>>

Some(v) == <<v>>

Min(a, b) == IF a <= b THEN a ELSE b

Max(a, b) == IF a >= b THEN a ELSE b

\* ------------------------------------------------------------------------
\* Texts
\* ------------------------------------------------------------------------
\* the characters str.strip() removes
Whitespace == {" ", "\n"}

\* Python's  c * n
Rep(c, n) == [j \in 1..n |-> c]

\* Python's  t[:k], k of either sign
Slice(t, k) ==
    IF k >= 0 THEN SubSeq(t, 1, Min(k, Len(t)))
    ELSE SubSeq(t, 1, Max(Len(t) + k, 0))

RECURSIVE lstrip(_)
lstrip(t) ==
    IF t = <<>> THEN t
    ELSE IF Head(t) \in Whitespace THEN lstrip(Tail(t))
    ELSE t

RECURSIVE rstrip(_)
rstrip(t) ==
    IF t = <<>> THEN t
    ELSE IF t[Len(t)] \in Whitespace THEN rstrip(SubSeq(t, 1, Len(t) - 1))
    ELSE t

\* Python's  t.strip()
strip(t) == rstrip(lstrip(t))

\* the start positions (1-based) of pat in t
Occurrences(t, pat) ==
    {j \in 1..(Len(t) - Len(pat) + 1) :
        \A k \in 1..Len(pat) : t[j + k - 1] = pat[k]}

\* Python's  pat in t
Contains(t, pat) ==
    \E j \in 1..(Len(t) - Len(pat) + 1) :
        \A k \in 1..Len(pat) : t[j + k - 1] = pat[k]

\* Python's  t.rsplit(sep, 1)[0]
RSplitHead(t, sep) ==
    LET occ == Occurrences(t, sep) IN
    IF occ = {} THEN t
    ELSE LET last_at == CHOOSE j \in occ : \A k \in occ : k <= j
         IN SubSeq(t, 1, last_at - 1)

\* one backquote character (written as a token: the lexer reads no backquote)
Backquote == "bq"

\* the code-fence marker of line 69
Fence == <<Backquote, Backquote, Backquote>>

ParaBreak == <<"\n", "\n">>

\* "\n[...]"
Marker == <<"\n", "[", ".", ".", ".", "]">>

\* "..."
Ellipsis == <<".", ".", ".">>

safe_trim(text0, max_len) ==
    LET text == strip(text0) IN
    IF Len(text) <= max_len THEN text
    ELSE IF Contains(Slice(text, max_len), Fence)
         THEN Slice(text, max_len) \o Marker
    ELSE IF Contains(Slice(text, max_len - 10), ParaBreak)
         THEN RSplitHead(Slice(text, max_len), ParaBreak) \o Marker
    ELSE Slice(text, max_len - 3) \o Ellipsis

\* ------------------------------------------------------------------------
\* State
\* ------------------------------------------------------------------------
VARIABLES
    clock,          \* the wall clock datetime.now() reads, in ms
    user_requests,  \* RateLimiter.user_requests: user id -> last accepted time
    lock,           \* RateLimiter._lock: None, or Some(the invocation holding it)
    pc,             \* where each handle_message invocation stands
    user,           \* update.effective_user.id
    text,           \* update.message.text
    now,            \* check_rate_limit's local now
    last,           \* check_rate_limit's local last
    allowed,        \* what check_rate_limit returned
    attempt,        \* call_deepseek_api's loop variable
    last_error,     \* call_deepseek_api's local last_error
    wake,           \* when the pending asyncio.sleep ends
    raised,         \* the exception call_deepseek_api raised
    reply_text,     \* what call_deepseek_api returned
    replies,        \* the messages sent with message.reply_text, in order
    posts,          \* history: client.post requests sent by the invocation
    before,         \* history: the caller's record when it took the lock
    evicted,        \* history: the users whose records the sweep dropped
    response,       \* history: what the invocation's latest client.post ended in
    ref_requests,   \* history: the table of a limiter that never sweeps
    trim_text,      \* safe_trim's argument text
    trim_max,       \* safe_trim's argument max_len
    trim_out        \* safe_trim's result

limiter_vars == <<clock, user_requests, lock>>

frame_vars == <<pc, user, text, now, last, allowed, attempt, last_error, wake,
                raised, reply_text, replies, posts, before, evicted, response>>

trim_vars == <<trim_text, trim_max, trim_out>>

vars == <<limiter_vars, frame_vars, ref_requests, trim_vars>>

\* a local of invocation i that has gone out of scope
Cleared(f, i) == [f EXCEPT ![i] = None]

\* dict.get(key): None or Some(value)
Get(d, k) == IF k \in DOMAIN d THEN Some(d[k]) ELSE None

\* Put with one timestamp shared by all the keys
PutShared(d, k, v) == [x \in DOMAIN d \cup {k} |-> v]

\* d[k] = v on a dict
Put(d, k, v) == [x \in DOMAIN d \cup {k} |-> IF x = k THEN v ELSE d[x]]

\* ------------------------------------------------------------------------
\* RateLimiter.check_rate_limit (lines 86-100)
\* ------------------------------------------------------------------------
\* Live with the horizon itself kept
LiveInclusive(t_now, t) == t_now - t <= RETENTION

\* Live with a horizon of one second
LiveOneSecond(t_now, t) == t_now - t < 1000

\* line 92: the record is kept by the sweep
Live(t_now, t) == t_now - t < RETENTION

\* lines 90-93: the dict comprehension
Swept(d, t_now) ==
    [uid \in {x \in DOMAIN d : Live(t_now, d[x])} |-> d[uid]]

\* InCooldown with the boundary refused
InCooldownInclusive(t_now, t_last) == t_now - t_last <= REQUEST_COOLDOWN

\* line 96: the cooldown has not elapsed
InCooldown(t_now, t_last) == t_now - t_last < REQUEST_COOLDOWN

\* Unlocked with the lock ignored
UnlockedAlways == TRUE

\* line 87: the lock can be taken
Unlocked == lock = None

\* The limiter of lines 95-100 without the sweep of lines 90-93: whether it
\* lets user u through at instant t, given its table d
RefAllows(d, u, t) == u \notin DOMAIN d \/ t - d[u] >= 5000

\* ... and its table after that call
RefAfter(d, u, t) ==
    IF RefAllows(d, u, t)
    THEN [x \in DOMAIN d \cup {u} |-> IF x = u THEN t ELSE d[x]]
    ELSE d

\* line 87: async with self._lock
AcquireLock(i) ==
    /\ pc[i] = "acquire"
    /\ Unlocked
    /\ lock' = Some(i)
    /\ before' = [before EXCEPT ![i] = Get(user_requests, user[i][1])]
    /\ pc' = [pc EXCEPT ![i] = "sweep"]
    /\ UNCHANGED <<clock, user_requests, user, text, now, last, allowed, attempt,
                   last_error, wake, raised, reply_text, replies, posts, evicted,
                   response,
                   ref_requests, trim_vars>>

\* lines 88-93: now = datetime.now(); drop the records older than an hour
Sweep(i) ==
    /\ pc[i] = "sweep"
    /\ now' = [now EXCEPT ![i] = Some(clock)]
    /\ user_requests' = Swept(user_requests, clock)
    /\ evicted' = [evicted EXCEPT
            ![i] = DOMAIN user_requests \ DOMAIN Swept(user_requests, clock)]
    /\ pc' = [pc EXCEPT ![i] = "lookup"]
    /\ UNCHANGED <<clock, lock, user, text, last, allowed, attempt, last_error,
                   wake, raised, reply_text, replies, posts, before, response,
                   ref_requests, trim_vars>>

\* line 95: last := self.user_requests.get(user_id)
Lookup(i) ==
    /\ pc[i] = "lookup"
    /\ last' = [last EXCEPT ![i] = Get(user_requests, user[i][1])]
    /\ pc' = [pc EXCEPT ![i] = "decide"]
    /\ UNCHANGED <<limiter_vars, user, text, now, allowed, attempt, last_error,
                   wake, raised, reply_text, replies, posts, before, evicted,
                   response,
                   ref_requests, trim_vars>>

\* Refuse with the refused call's now written to the caller's record
RefuseResetting(i) ==
    /\ pc[i] = "decide"
    /\ last[i] # None
    /\ InCooldown(now[i][1], last[i][1])
    /\ user_requests' = Put(user_requests, user[i][1], now[i][1])
    /\ allowed' = [allowed EXCEPT ![i] = Some(FALSE)]
    /\ lock' = None
    /\ pc' = [pc EXCEPT ![i] = "checked"]
    /\ ref_requests' = RefAfter(ref_requests, user[i][1], now[i][1])
    /\ UNCHANGED <<clock, user, text, now, last, attempt, last_error, wake,
                   raised, reply_text, replies, posts, before, evicted, response,
                   trim_vars>>

\* lines 95-97: return False, leaving the lock
Refuse(i) ==
    /\ pc[i] = "decide"
    /\ last[i] # None
    /\ InCooldown(now[i][1], last[i][1])
    /\ allowed' = [allowed EXCEPT ![i] = Some(FALSE)]
    /\ lock' = None
    /\ pc' = [pc EXCEPT ![i] = "checked"]
    /\ ref_requests' = RefAfter(ref_requests, user[i][1], now[i][1])
    /\ UNCHANGED <<clock, user_requests, user, text, now, last, attempt,
                   last_error, wake, raised, reply_text, replies, posts, before,
                   evicted, response, trim_vars>>

\* Accept with the lock kept while the caller goes on
AcceptHoldingLock(i) ==
    /\ pc[i] = "decide"
    /\ ~(last[i] # None /\ InCooldown(now[i][1], last[i][1]))
    /\ user_requests' = Put(user_requests, user[i][1], now[i][1])
    /\ allowed' = [allowed EXCEPT ![i] = Some(TRUE)]
    /\ pc' = [pc EXCEPT ![i] = "checked"]
    /\ ref_requests' = RefAfter(ref_requests, user[i][1], now[i][1])
    /\ UNCHANGED <<clock, lock, user, text, now, last, attempt, last_error, wake,
                   raised, reply_text, replies, posts, before, evicted, response,
                   trim_vars>>

\* lines 95-100: record now and return True, leaving the lock
Accept(i) ==
    /\ pc[i] = "decide"
    /\ ~(last[i] # None /\ InCooldown(now[i][1], last[i][1]))
    /\ user_requests' = Put(user_requests, user[i][1], now[i][1])
    /\ allowed' = [allowed EXCEPT ![i] = Some(TRUE)]
    /\ lock' = None
    /\ pc' = [pc EXCEPT ![i] = "checked"]
    /\ ref_requests' = RefAfter(ref_requests, user[i][1], now[i][1])
    /\ UNCHANGED <<clock, user, text, now, last, attempt, last_error, wake,
                   raised, reply_text, replies, posts, before, evicted, response,
                   trim_vars>>

\* ------------------------------------------------------------------------
\* call_deepseek_api (lines 135-170)
\* ------------------------------------------------------------------------
\* the HTTP error statuses the upstream answers with
Statuses == {401, 429, 404, 500}

\* the completion texts the upstream answers with
Hello == <<"h", "e", "l", "l", "o">>

ReplyTexts ==
    { Hello,
      <<" ">> \o Hello \o <<"\n">>,
      Rep("a", MAX_RESPONSE_LENGTH),
      Rep("a", MAX_RESPONSE_LENGTH + 1),
      Fence \o Rep("a", 5000 - 3),
      Rep("a", 3800) \o ParaBreak \o Rep("a", 5000 - 3802),
      Rep("a", 3800) \o ParaBreak \o Rep("a", 290) \o ParaBreak \o Rep("a", 906) }

\* what one client.post can end in: an exception of the transport, an HTTP
\* error status, a 200 body without choices, a 200 body whose first choice
\* has no message.content, or a well-formed completion
Responses ==
    {[kind |-> "connect_error"], [kind |-> "timeout"],
     [kind |-> "no_choices"], [kind |-> "no_content"]}
    \cup {[kind |-> "status", code |-> c] : c \in Statuses}
    \cup {[kind |-> "ok", content |-> t] : t \in ReplyTexts}

\* the exception the body of the try raises on response r (lines 144-163)
Raises(r) ==
    CASE r.kind = "connect_error" -> [cls |-> "ConnectError", status |-> 0]
      [] r.kind = "timeout" -> [cls |-> "TimeoutException", status |-> 0]
      [] r.kind = "status" -> [cls |-> "HTTPStatusError", status |-> r.code]
      [] r.kind = "no_choices" -> [cls |-> "ValueError", status |-> 0]
      [] r.kind = "no_content" -> [cls |-> "KeyError", status |-> 0]

\* MayRetry with one attempt more
MayRetryInclusive(a) == a <= MAX_API_RETRIES

\* line 167: another attempt follows
MayRetry(a) == a < MAX_API_RETRIES

\* Backoff with the same delay after every attempt
BackoffConstant(a) == API_RETRY_DELAY

\* line 168: the delay slept after attempt a
Backoff(a) == API_RETRY_DELAY * a

\* line 170: the exception raised when the attempts are used up
Exhausted(e) == [cls |-> "Exception", status |-> 0, detail |-> e]

\* AttemptOk with a body whose first choice has no content returned as well,
\* as the empty text
AttemptOkLenient(i) ==
    /\ pc[i] = "post"
    /\ \E r \in Responses :
         /\ r.kind \in {"ok", "no_content"}
         /\ reply_text' = [reply_text EXCEPT
                ![i] = Some(IF r.kind = "ok" THEN r.content ELSE <<>>)]
         /\ response' = [response EXCEPT ![i] = Some(r)]
    /\ posts' = [posts EXCEPT ![i] = @ + 1]
    /\ pc' = [pc EXCEPT ![i] = "respond"]
    /\ last_error' = Cleared(last_error, i)
    /\ UNCHANGED <<limiter_vars, user, text, now, last, allowed, attempt, wake,
                   raised, replies, before, evicted, ref_requests, trim_vars>>

\* lines 144-163: the POST is answered with a well-formed completion, which
\* is returned (the locals of call_deepseek_api go out of scope)
AttemptOk(i) ==
    /\ pc[i] = "post"
    /\ \E r \in Responses :
         /\ r.kind = "ok"
         /\ reply_text' = [reply_text EXCEPT ![i] = Some(r.content)]
         /\ response' = [response EXCEPT ![i] = Some(r)]
    /\ posts' = [posts EXCEPT ![i] = @ + 1]
    /\ pc' = [pc EXCEPT ![i] = "respond"]
    /\ last_error' = Cleared(last_error, i)
    /\ UNCHANGED <<limiter_vars, user, text, now, last, allowed, attempt, wake,
                   raised, replies, before, evicted, ref_requests, trim_vars>>

\* lines 165-168: the attempt raised and another one follows after a sleep
AttemptRetry(i) ==
    /\ pc[i] = "post"
    /\ MayRetry(attempt[i])
    /\ \E r \in Responses :
         /\ r.kind # "ok"
         /\ last_error' = [last_error EXCEPT ![i] = Some(Raises(r))]
         /\ response' = [response EXCEPT ![i] = Some(r)]
    /\ posts' = [posts EXCEPT ![i] = @ + 1]
    /\ wake' = [wake EXCEPT ![i] = Some(clock + Backoff(attempt[i]))]
    /\ pc' = [pc EXCEPT ![i] = "sleep"]
    /\ UNCHANGED <<limiter_vars, user, text, now, last, allowed, attempt, raised,
                   reply_text, replies, before, evicted, ref_requests, trim_vars>>

\* lines 165-170: the attempt raised and it was the last one
AttemptExhausted(i) ==
    /\ pc[i] = "post"
    /\ ~MayRetry(attempt[i])
    /\ \E r \in Responses :
         /\ r.kind # "ok"
         /\ last_error' = [last_error EXCEPT ![i] = Some(Raises(r))]
         /\ raised' = [raised EXCEPT ![i] = Some(Exhausted(Raises(r)))]
         /\ response' = [response EXCEPT ![i] = Some(r)]
    /\ posts' = [posts EXCEPT ![i] = @ + 1]
    /\ pc' = [pc EXCEPT ![i] = "except"]
    /\ UNCHANGED <<limiter_vars, user, text, now, last, allowed, attempt, wake,
                   reply_text, replies, before, evicted, ref_requests, trim_vars>>

\* lines 168, 138: the sleep ends and the loop takes the next attempt
Wake(i) ==
    /\ pc[i] = "sleep"
    /\ clock >= wake[i][1]
    /\ attempt' = [attempt EXCEPT ![i] = @ + 1]
    /\ wake' = [wake EXCEPT ![i] = None]
    /\ pc' = [pc EXCEPT ![i] = "post"]
    /\ UNCHANGED <<limiter_vars, user, text, now, last, allowed, last_error,
                   raised, reply_text, replies, posts, before, evicted, response,
                   ref_requests, trim_vars>>

\* the exception a cancelled await raises
Cancelled == [cls |-> "CancelledError", status |-> 0]

\* CaughtByExcept with every exception class caught
CaughtByExceptAll(e) == TRUE

\* lines 165, 218: "except Exception" catches e (asyncio.CancelledError
\* derives from BaseException, every other class met here from Exception)
CaughtByExcept(e) == e.cls # "CancelledError"

\* The runtime cancels the task while it awaits client.post (line 145, inside
\* the try) or asyncio.sleep (line 168, inside the except clause). An
\* exception of the try goes to line 165; one raised inside the except
\* clause leaves call_deepseek_api and goes to the clauses of lines 207-218.
\* What no clause catches unwinds the coroutine.
Cancel(i) ==
    /\ pc[i] \in {"post", "sleep"}
    /\ IF pc[i] = "post" /\ CaughtByExcept(Cancelled) /\ MayRetry(attempt[i])
       THEN /\ last_error' = [last_error EXCEPT ![i] = Some(Cancelled)]
            /\ wake' = [wake EXCEPT ![i] = Some(clock + Backoff(attempt[i]))]
            /\ pc' = [pc EXCEPT ![i] = "sleep"]
            /\ UNCHANGED <<attempt, raised>>
       ELSE IF CaughtByExcept(Cancelled)
       THEN /\ raised' = [raised EXCEPT ![i] =
                    Some(IF pc[i] = "post" THEN Exhausted(Cancelled) ELSE Cancelled)]
            /\ wake' = Cleared(wake, i)
            /\ pc' = [pc EXCEPT ![i] = "except"]
            /\ UNCHANGED <<attempt, last_error>>
       ELSE /\ attempt' = [attempt EXCEPT ![i] = 0]
            /\ last_error' = Cleared(last_error, i)
            /\ wake' = Cleared(wake, i)
            /\ pc' = [pc EXCEPT ![i] = "cancelled"]
            /\ UNCHANGED raised
    /\ UNCHANGED <<limiter_vars, user, text, now, last, allowed, reply_text,
                   replies, posts, before, evicted, response, ref_requests,
                   trim_vars>>

\* ------------------------------------------------------------------------
\* handle_message (lines 172-223)
\* ------------------------------------------------------------------------
\* the texts the messaging runtime delivers (filters.TEXT passes no empty text)
Blank == <<" ", "\n">>

InputTexts ==
    { Blank,
      <<"h", "i">>,
      <<" ">> \o Rep("a", MAX_INPUT_LENGTH) \o <<"\n">>,
      Rep("a", MAX_INPUT_LENGTH + 1) }

\* the fixed replies, named by their wording
WaitReply == [kind |-> "please_wait"]

NonEmptyReply == [kind |-> "send_non_empty"]

MaxCharsReply == [kind |-> "max_chars"]

TemporaryErrorReply == [kind |-> "temporary_error"]

\* CompletionReply with the completion sent as it came
CompletionReplyRaw(t) == [kind |-> "completion", text |-> t]

\* lines 201-205: the completion, trimmed
CompletionReply(t) == [kind |-> "completion", text |-> safe_trim(t, MAX_RESPONSE_LENGTH)]

\* lines 208-214: error_map.get(status, f"API Error {status}")
error_map(status) ==
    CASE status = 401 -> [kind |-> "invalid_api_key"]
      [] status = 429 -> [kind |-> "too_many_requests"]
      [] status = 500 -> [kind |-> "api_server_error"]
      [] OTHER -> [kind |-> "api_error", status |-> status]

\* lines 207-223: the reply the except clauses choose for exception e
ErrorReply(e) ==
    IF e.cls = "HTTPStatusError" THEN error_map(e.status)
    ELSE TemporaryErrorReply

\* Admitted with the limiter's answer ignored
AdmittedAlways(a) == a # None

\* line 179: check_rate_limit returned True
Admitted(a) == a = Some(TRUE)

\* line 188
IsEmpty(user_input) == user_input = <<>>

\* TooLong off by one
TooLongOffByOne(user_input) == Len(user_input) > MAX_INPUT_LENGTH + 1

\* line 192
TooLong(user_input) == Len(user_input) > MAX_INPUT_LENGTH

\* lines 172-179: the handler is entered with the update of user u, text m
Receive(i, u, m) ==
    /\ pc[i] = "idle"
    /\ \A j \in Invocations : j < i => pc[j] # "idle"
    /\ user' = [user EXCEPT ![i] = Some(u)]
    /\ text' = [text EXCEPT ![i] = Some(m)]
    /\ pc' = [pc EXCEPT ![i] = "acquire"]
    /\ UNCHANGED <<limiter_vars, now, last, allowed, attempt, last_error, wake,
                   raised, reply_text, replies, posts, before, evicted, response,
                   ref_requests, trim_vars>>

\* lines 179-184: the limiter refused; send the cooldown notice and return
ReplyCooldown(i) ==
    /\ pc[i] = "checked"
    /\ ~Admitted(allowed[i])
    /\ replies' = [replies EXCEPT ![i] = Append(@, WaitReply)]
    /\ pc' = [pc EXCEPT ![i] = "done"]
    /\ now' = Cleared(now, i)
    /\ last' = Cleared(last, i)
    /\ before' = Cleared(before, i)
    /\ evicted' = [evicted EXCEPT ![i] = {}]
    /\ UNCHANGED <<limiter_vars, user, text, allowed, attempt, last_error, wake,
                   raised, reply_text, posts, response,
                   ref_requests, trim_vars>>

\* lines 187-190: the stripped text is empty
RejectEmpty(i) ==
    /\ pc[i] = "checked"
    /\ Admitted(allowed[i])
    /\ IsEmpty(strip(text[i][1]))
    /\ replies' = [replies EXCEPT ![i] = Append(@, NonEmptyReply)]
    /\ pc' = [pc EXCEPT ![i] = "done"]
    /\ now' = Cleared(now, i)
    /\ last' = Cleared(last, i)
    /\ before' = Cleared(before, i)
    /\ evicted' = [evicted EXCEPT ![i] = {}]
    /\ UNCHANGED <<limiter_vars, user, text, allowed, attempt, last_error, wake,
                   raised, reply_text, posts, response,
                   ref_requests, trim_vars>>

\* lines 192-197: the stripped text is longer than MAX_INPUT_LENGTH
RejectTooLong(i) ==
    /\ pc[i] = "checked"
    /\ Admitted(allowed[i])
    /\ ~IsEmpty(strip(text[i][1]))
    /\ TooLong(strip(text[i][1]))
    /\ replies' = [replies EXCEPT ![i] = Append(@, MaxCharsReply)]
    /\ pc' = [pc EXCEPT ![i] = "done"]
    /\ now' = Cleared(now, i)
    /\ last' = Cleared(last, i)
    /\ before' = Cleared(before, i)
    /\ evicted' = [evicted EXCEPT ![i] = {}]
    /\ UNCHANGED <<limiter_vars, user, text, allowed, attempt, last_error, wake,
                   raised, reply_text, posts, response,
                   ref_requests, trim_vars>>

\* lines 199-200, 137-138: enter call_deepseek_api, first attempt
StartCall(i) ==
    /\ pc[i] = "checked"
    /\ Admitted(allowed[i])
    /\ ~IsEmpty(strip(text[i][1]))
    /\ ~TooLong(strip(text[i][1]))
    /\ attempt' = [attempt EXCEPT ![i] = 1]
    /\ last_error' = [last_error EXCEPT ![i] = None]
    /\ pc' = [pc EXCEPT ![i] = "post"]
    /\ now' = Cleared(now, i)
    /\ last' = Cleared(last, i)
    /\ before' = Cleared(before, i)
    /\ evicted' = [evicted EXCEPT ![i] = {}]
    /\ UNCHANGED <<limiter_vars, user, text, allowed, wake, raised, reply_text,
                   replies, posts, response,
                   ref_requests, trim_vars>>

\* lines 201-205: send the trimmed completion
Respond(i) ==
    /\ pc[i] = "respond"
    /\ replies' = [replies EXCEPT ![i] = Append(@, CompletionReply(reply_text[i][1]))]
    /\ pc' = [pc EXCEPT ![i] = "done"]
    /\ UNCHANGED <<limiter_vars, user, text, now, last, allowed, attempt,
                   last_error, wake, raised, reply_text, posts, before, evicted,
                   response,
                   ref_requests, trim_vars>>

\* HandleError with the exception logged and no reply sent
HandleErrorSilent(i) ==
    /\ pc[i] = "except"
    /\ pc' = [pc EXCEPT ![i] = "done"]
    /\ UNCHANGED <<limiter_vars, user, text, now, last, allowed, attempt,
                   last_error, wake, raised, reply_text, replies, posts, before,
                   evicted, response, ref_requests, trim_vars>>

\* lines 207-223: an except clause sends the error reply
HandleError(i) ==
    /\ pc[i] = "except"
    /\ replies' = [replies EXCEPT ![i] = Append(@, ErrorReply(raised[i][1]))]
    /\ pc' = [pc EXCEPT ![i] = "done"]
    /\ UNCHANGED <<limiter_vars, user, text, now, last, allowed, attempt,
                   last_error, wake, raised, reply_text, posts, before, evicted,
                   response,
                   ref_requests, trim_vars>>

\* the coroutine returns, or its cancellation has unwound it, and its frame
\* is gone
Return(i) ==
    /\ pc[i] \in {"done", "cancelled"}
    /\ pc' = [pc EXCEPT ![i] = "idle"]
    /\ user' = Cleared(user, i)
    /\ text' = Cleared(text, i)
    /\ now' = Cleared(now, i)
    /\ last' = Cleared(last, i)
    /\ allowed' = Cleared(allowed, i)
    /\ attempt' = [attempt EXCEPT ![i] = 0]
    /\ last_error' = Cleared(last_error, i)
    /\ wake' = Cleared(wake, i)
    /\ raised' = Cleared(raised, i)
    /\ reply_text' = Cleared(reply_text, i)
    /\ replies' = [replies EXCEPT ![i] = <<>>]
    /\ posts' = [posts EXCEPT ![i] = 0]
    /\ before' = Cleared(before, i)
    /\ evicted' = [evicted EXCEPT ![i] = {}]
    /\ response' = Cleared(response, i)
    /\ UNCHANGED <<limiter_vars, ref_requests, trim_vars>>

\* the last of the sampled instants
LastInstant == CHOOSE t \in Times : \A s \in Times : s <= t

\* the instants the clock can move to: the sampled ones, and past them the
\* instant a pending asyncio.sleep ends
Instants ==
    Times \cup {w \in {wake[i][1] : i \in {j \in Invocations : wake[j] # None}} :
                  w > LastInstant}

\* time passes
Tick ==
    /\ \E t \in Instants : t > clock /\ clock' = t
    /\ UNCHANGED <<user_requests, lock, frame_vars, ref_requests, trim_vars>>

\* ------------------------------------------------------------------------
\* Specifications
\* ------------------------------------------------------------------------
InitPipeline ==
    /\ clock = 0
    /\ user_requests = <<>>
    /\ lock = None
    /\ pc = [i \in Invocations |-> "idle"]
    /\ user = [i \in Invocations |-> None]
    /\ text = [i \in Invocations |-> None]
    /\ now = [i \in Invocations |-> None]
    /\ last = [i \in Invocations |-> None]
    /\ allowed = [i \in Invocations |-> None]
    /\ attempt = [i \in Invocations |-> 0]
    /\ last_error = [i \in Invocations |-> None]
    /\ wake = [i \in Invocations |-> None]
    /\ raised = [i \in Invocations |-> None]
    /\ reply_text = [i \in Invocations |-> None]
    /\ replies = [i \in Invocations |-> <<>>]
    /\ posts = [i \in Invocations |-> 0]
    /\ before = [i \in Invocations |-> None]
    /\ evicted = [i \in Invocations |-> {}]
    /\ response = [i \in Invocations |-> None]
    /\ ref_requests = <<>>

Init ==
    /\ InitPipeline
    /\ trim_text = <<>>
    /\ trim_max = 0
    /\ trim_out = None

\* Application.builder() is left at concurrent_updates = False (lines 255-258):
\* the runtime awaits the handler of one update before it takes the next
Dispatch(i) ==
    /\ \A j \in Invocations : pc[j] = "idle"
    /\ clock <= LastInstant
    /\ \E u \in Users, m \in InputTexts : Receive(i, u, m)

Next ==
    \/ Tick
    \/ \E i \in Invocations :
         \/ Dispatch(i)
         \/ AcquireLock(i)
         \/ Sweep(i)
         \/ Lookup(i)
         \/ Refuse(i)
         \/ Accept(i)
         \/ ReplyCooldown(i)
         \/ RejectEmpty(i)
         \/ RejectTooLong(i)
         \/ StartCall(i)
         \/ AttemptOk(i)
         \/ AttemptRetry(i)
         \/ AttemptExhausted(i)
         \/ Wake(i)
         \/ Cancel(i)
         \/ Respond(i)
         \/ HandleError(i)
         \/ Return(i)

Spec == Init /\ [][Next]_vars

\* The handlers of several updates in flight at once, as far as the rate
\* limiter goes: an invocation the limiter accepted stays where it left
\* check_rate_limit (the rest of handle_message never touches the limiter).
ConcurrentDispatch(i) ==
    \E u \in Users : Receive(i, u, <<"h", "i">>)

NextConcurrent ==
    \/ Tick
    \/ \E i \in Invocations :
         \/ ConcurrentDispatch(i)
         \/ AcquireLock(i)
         \/ Sweep(i)
         \/ Lookup(i)
         \/ Refuse(i)
         \/ Accept(i)
         \/ ReplyCooldown(i)
         \/ Return(i)

SpecConcurrent == Init /\ [][NextConcurrent]_vars

\* safe_trim alone, on every text over TrimAlphabet up to MaxLen characters
\* and on the upstream texts, for every max_len up to MaxN and for the
\* handler's MAX_RESPONSE_LENGTH
TrimAlphabet == {"a", "\n", Backquote}

TrimTexts == UNION {[1..n -> TrimAlphabet] : n \in 0..MaxLen} \cup ReplyTexts

TrimLimits == 0..MaxN \cup {MAX_RESPONSE_LENGTH}

InitTrim ==
    /\ InitPipeline
    /\ trim_text \in TrimTexts
    /\ trim_max \in TrimLimits
    /\ trim_out = None

ApplyTrim ==
    /\ trim_out = None
    /\ trim_out' = Some(safe_trim(trim_text, trim_max))
    /\ UNCHANGED <<limiter_vars, frame_vars, ref_requests, trim_text, trim_max>>

NextTrim == ApplyTrim

SpecTrim == InitTrim /\ [][NextTrim]_vars

\* ------------------------------------------------------------------------
\* Claims
\* ------------------------------------------------------------------------
\* invocation i leaves check_rate_limit in this step
LeavesLimiter(i) == pc[i] = "decide" /\ pc'[i] = "checked"

\* the invocations that have made, or are about to make, a network call
InApiCall(i) == pc[i] \in {"post", "sleep", "respond", "except"}

\* message.text.strip() of invocation i
user_input(i) == strip(text[i][1])

\* C1: a check_rate_limit call returns True, and records its now as the
\* user's last-request time, if and only if the user had no record when the
\* call began or that record was at least REQUEST_COOLDOWN old.
C1_CooldownRule ==
    [][\A i \in Invocations :
         LeavesLimiter(i) =>
            /\ (allowed'[i] = Some(TRUE)) <=>
                   (before[i] = None
                      \/ now[i][1] - before[i][1] >= REQUEST_COOLDOWN)
            /\ (allowed'[i] = Some(TRUE)) =>
                   Get(user_requests', user[i][1]) = now[i]]_vars

\* C1: a first call was accepted and a second call of the same user, made
\* later but less than REQUEST_COOLDOWN after it, was refused.
C1_Witness ==
    \E i, j \in Invocations :
        /\ i # j
        /\ pc[i] = "checked" /\ pc[j] = "checked"
        /\ user[i] = user[j]
        /\ allowed[i] = Some(TRUE) /\ before[i] = None
        /\ allowed[j] = Some(FALSE) /\ before[j] = now[i]
        /\ now[j][1] > now[i][1]
        /\ now[j][1] - now[i][1] < REQUEST_COOLDOWN

\* C2: two invocations of one user whose checks are less than
\* REQUEST_COOLDOWN apart are never both accepted, however their steps
\* interleave.
C2_NoDoubleAccept ==
    \A i, j \in Invocations :
        (/\ i # j
         /\ user[i] # None /\ user[i] = user[j]
         /\ allowed[i] = Some(TRUE) /\ allowed[j] = Some(TRUE))
        => \/ now[i][1] - now[j][1] >= REQUEST_COOLDOWN
           \/ now[j][1] - now[i][1] >= REQUEST_COOLDOWN

\* C2: an invocation waits for the lock while another invocation of the
\* same user is inside check_rate_limit, has found no record and is about
\* to be accepted.
C2_Witness ==
    \E i, j \in Invocations :
        /\ i # j
        /\ user[i] = user[j]
        /\ pc[i] = "decide" /\ lock = Some(i) /\ last[i] = None
        /\ pc[j] = "acquire"

\* C3: after the upstream answered an attempt with 401, 429 or another
\* status below 500, the call neither sleeps nor posts again.
C3_TerminalStatusNotRetried ==
    \A i \in Invocations :
        (/\ last_error[i] # None
         /\ last_error[i][1].cls = "HTTPStatusError"
         /\ last_error[i][1].status < 500)
        => pc[i] \notin {"sleep", "post"}

\* C4: a call never makes more than MAX_API_RETRIES requests, sleeps only
\* when a further attempt is left, and fails only after exactly
\* MAX_API_RETRIES requests, with the last error in the exception.
C4_BoundedAttempts ==
    \A i \in Invocations :
        /\ posts[i] <= MAX_API_RETRIES
        /\ attempt[i] <= MAX_API_RETRIES
        /\ pc[i] = "sleep" => posts[i] < MAX_API_RETRIES
        /\ pc[i] = "except" =>
               /\ posts[i] = MAX_API_RETRIES
               /\ raised[i][1].detail = last_error[i][1]

\* C4: a call has failed after three requests.
C4_Witness ==
    \E i \in Invocations :
        /\ pc[i] = "except"
        /\ posts[i] = MAX_API_RETRIES
        /\ raised[i] # None

\* C5: every completion the handler sends is at most MAX_RESPONSE_LENGTH
\* characters long.
C5_ReplyWithinCeiling ==
    \A i \in Invocations :
        \A k \in DOMAIN replies[i] :
            replies[i][k].kind = "completion"
                => Len(replies[i][k].text) <= MAX_RESPONSE_LENGTH

C7_StatusSpecificReplies ==
    \A i \in Invocations :
        (pc[i] = "done" /\ raised[i] # None) =>
            LET e == raised[i][1].detail IN
            /\ (e.cls = "HTTPStatusError" /\ e.status = 401)
                   => replies[i] = <<error_map(401)>>
            /\ (e.cls = "HTTPStatusError" /\ e.status = 429)
                   => replies[i] = <<error_map(429)>>
            /\ replies[i] = <<TemporaryErrorReply>>
                   => e.cls # "HTTPStatusError"

\* C8: an invocation that sent the cooldown, non-empty or max-chars notice
\* has made no request, and an invocation inside the API call, or past it,
\* was accepted by the limiter and has a non-empty input of at most
\* MAX_INPUT_LENGTH characters.
C8_NoCallWhenRejected ==
    \A i \in Invocations :
        /\ (\E k \in DOMAIN replies[i] :
                replies[i][k] \in {WaitReply, NonEmptyReply, MaxCharsReply})
               => posts[i] = 0
        /\ (InApiCall(i) \/ posts[i] > 0) =>
               /\ allowed[i] = Some(TRUE)
               /\ Len(user_input(i)) > 0
               /\ Len(user_input(i)) <= MAX_INPUT_LENGTH

\* C8: an over-long message was rejected without any request.
C8_Witness ==
    \E i \in Invocations :
        /\ pc[i] = "done"
        /\ Len(user_input(i)) = MAX_INPUT_LENGTH + 1
        /\ replies[i] = <<MaxCharsReply>>
        /\ posts[i] = 0

\* C9: safe_trim(text, N) is at most N + len(Marker) characters long, and
\* is the stripped text when that has at most N characters.
C9_TrimBound ==
    trim_out # None =>
        /\ Len(trim_out[1]) <= trim_max + Len(Marker)
        /\ Len(strip(trim_text)) <= trim_max => trim_out[1] = strip(trim_text)

\* C10: when a check_rate_limit call made at time now returns, accepting or
\* refusing, every record of the table is younger than RETENTION at now.
C10_Retention ==
    [][\A i \in Invocations :
         LeavesLimiter(i) =>
            \A u \in DOMAIN user_requests' :
                now[i][1] - user_requests'[u] < RETENTION]_vars

\* C10: a call has returned whose sweep dropped the record of another user.
C10_Witness ==
    \E i \in Invocations :
        /\ pc[i] = "checked"
        /\ \E u \in evicted[i] : u # user[i][1]

\* C11: a check_rate_limit call that returns False leaves the table as it
\* was, the caller's record included, which is the one the call found and is
\* less than REQUEST_COOLDOWN old; and a call made REQUEST_COOLDOWN or more
\* after the record it found is accepted.
C11_RefusalKeepsRecord ==
    [][\A i \in Invocations :
         LeavesLimiter(i) =>
            /\ (allowed'[i] = Some(FALSE)) =>
                   /\ before[i] # None
                   /\ Get(user_requests', user[i][1]) = before[i]
                   /\ user_requests' = user_requests
                   /\ now[i][1] - before[i][1] < REQUEST_COOLDOWN
            /\ (before[i] # None
                  /\ now[i][1] - before[i][1] >= REQUEST_COOLDOWN) =>
                   allowed'[i] = Some(TRUE)]_vars

\* C11: a user was accepted, refused at a later instant inside the cooldown,
\* and accepted again exactly REQUEST_COOLDOWN after the first acceptance:
\* the third call still found the record of the first.
C11_Witness ==
    \E i, j, k \in Invocations :
        /\ pc[i] = "checked" /\ pc[j] = "checked" /\ pc[k] = "checked"
        /\ user[i] = user[j] /\ user[j] = user[k]
        /\ allowed[i] = Some(TRUE)
        /\ allowed[j] = Some(FALSE) /\ before[j] = now[i]
        /\ allowed[k] = Some(TRUE) /\ before[k] = now[i]
        /\ now[i][1] < now[j][1] /\ now[j][1] < now[k][1]
        /\ now[k][1] = now[i][1] + REQUEST_COOLDOWN

\* a step of invocation i once its handler has been entered
Step(i) ==
    \/ AcquireLock(i)
    \/ Sweep(i)
    \/ Lookup(i)
    \/ Refuse(i)
    \/ Accept(i)
    \/ ReplyCooldown(i)
    \/ RejectEmpty(i)
    \/ RejectTooLong(i)
    \/ StartCall(i)
    \/ AttemptOk(i)
    \/ AttemptRetry(i)
    \/ AttemptExhausted(i)
    \/ Wake(i)
    \/ Respond(i)
    \/ HandleError(i)
    \/ Return(i)

\* how far invocation i is from its end: every step of the handler lowers it
Rank(i) ==
    CASE pc[i] = "acquire" -> 12
      [] pc[i] = "sweep" -> 11
      [] pc[i] = "lookup" -> 10
      [] pc[i] = "decide" -> 9
      [] pc[i] = "checked" -> 8
      [] pc[i] = "post" -> 9 - 2 * attempt[i]
      [] pc[i] = "sleep" -> 8 - 2 * attempt[i]
      [] pc[i] \in {"respond", "except"} -> 2
      [] pc[i] \in {"done", "cancelled"} -> 1
      [] pc[i] = "idle" -> 0

\* invocation i can go on (Respond asks for nothing but its position), or
\* waits for the lock whose holder can go on, or sleeps while time can pass
CanGoOn(i) ==
    \/ pc[i] = "respond"
    \/ ENABLED Step(i)
    \/ pc[i] = "acquire" /\ \E j \in Invocations : lock = Some(j) /\ ENABLED Step(j)
    \/ pc[i] = "sleep" /\ clock < wake[i][1] /\ ENABLED Tick

\* C12: every invocation of handle_message comes to its end with exactly one
\* reply sent, whatever the text and whatever the upstream answers. It is
\* never stuck (it can step, or waits for a sleep that ends), its distance
\* from the end is bounded (the retry loop is the only loop and has at most
\* MAX_API_RETRIES rounds), it has sent no reply before the end and exactly
\* one at the end, and an exception call_deepseek_api raised is with the
\* except clauses or has been answered: none leaves the handler.
C12_OneReplyEventually ==
    \A i \in Invocations :
        /\ pc[i] # "idle" => CanGoOn(i)
        /\ Rank(i) >= 0
        /\ pc[i] = "done" => Len(replies[i]) = 1
        /\ pc[i] # "done" => replies[i] = <<>>
        /\ raised[i] # None => pc[i] \in {"except", "done"}

\* C12: every step of an invocation brings it nearer its end.
C12_RankDecreases ==
    [][\A i \in Invocations :
         pc'[i] # pc[i] /\ pc[i] # "idle" => Rank(i)' < Rank(i)]_vars

\* C12: the three attempts failed, the exception call_deepseek_api raised
\* was caught, and the invocation ended with the one error reply.
C12_Witness ==
    \E i \in Invocations :
        /\ pc[i] = "done"
        /\ posts[i] = MAX_API_RETRIES
        /\ raised[i] # None
        /\ replies[i] = <<TemporaryErrorReply>>

\* C13: a failed attempt is followed by a sleep exactly when another attempt
\* follows; the sleep after attempt 1 lasts 1500 ms and the one after
\* attempt 2 lasts 3000 ms (API_RETRY_DELAY times the attempt number); the
\* last attempt is followed by no sleep; and the next attempt starts only
\* when the sleep's end has been reached.
C13_Backoff ==
    [][\A i \in Invocations :
         /\ (pc[i] = "post" /\ pc'[i] = "sleep") =>
                /\ attempt[i] \in {1, 2}
                /\ posts'[i] = attempt[i]
                /\ wake'[i] # None
                /\ wake'[i][1] - clock = IF attempt[i] = 1 THEN 1500 ELSE 3000
                /\ wake'[i][1] - clock = API_RETRY_DELAY * attempt[i]
         /\ (pc[i] = "post" /\ pc'[i] = "except") =>
                /\ attempt[i] = MAX_API_RETRIES
                /\ wake'[i] = None
         /\ (pc[i] = "sleep" /\ pc'[i] = "post") =>
                /\ clock >= wake[i][1]
                /\ attempt'[i] = attempt[i] + 1
                /\ posts'[i] = posts[i]
         /\ (pc[i] = "sleep" /\ pc'[i] # "sleep") =>
                pc'[i] \in {"post", "cancelled"}]_vars

\* C13: the second attempt has just failed and the invocation sleeps for
\* 3000 ms, having slept 1500 ms after the first.
C13_Witness ==
    \E i \in Invocations :
        /\ pc[i] = "sleep"
        /\ attempt[i] = 2 /\ posts[i] = 2
        /\ wake[i] = Some(clock + 3000)
        /\ clock >= 1500

\* C14: every check_rate_limit call returns what a limiter that applies the
\* cooldown rule alone and never drops a record returns for the same calls
\* at the same instants.
C14_SweepChangesNoOutcome ==
    [][\A i \in Invocations :
         LeavesLimiter(i) =>
            (allowed'[i] = Some(TRUE)) <=>
                RefAllows(ref_requests, user[i][1], now[i][1])]_vars

\* C14: the sweep of a call dropped the caller's own record, which the
\* limiter that never sweeps still held, and the call was accepted.
C14_Witness ==
    \E i \in Invocations :
        /\ pc[i] = "checked"
        /\ user[i][1] \in evicted[i]
        /\ before[i] # None
        /\ allowed[i] = Some(TRUE)
        /\ ref_requests[user[i][1]] = now[i][1]

\* C15: an invocation that is inside call_deepseek_api (posting, sleeping
\* between attempts, or leaving it with a result or an exception) does not
\* hold the limiter's lock, and neither does one that has left
\* check_rate_limit in any other way: the lock is held only between its
\* acquisition and the return of check_rate_limit.
C15_NoLockInApiCall ==
    \A i \in Invocations :
        /\ InApiCall(i) => lock # Some(i)
        /\ lock = Some(i) => pc[i] \in {"sweep", "lookup", "decide"}

\* C15: an invocation sleeps between two attempts and the lock is free.
C15_Witness ==
    \E i \in Invocations :
        /\ pc[i] = "sleep"
        /\ posts[i] >= 1
        /\ lock = None

\* a 200 body without choices, or whose first choice has no message.content
Malformed(r) == r.kind \in {"no_choices", "no_content"}

\* C16: when the latest POST of an invocation was answered 200 with a
\* malformed body, nothing has been returned as a completion; if it was
\* attempt 1 or 2 the invocation sleeps the backoff or has gone on to the
\* next attempt (or was cancelled), and if it was attempt 3 the call has
\* raised the exhausted failure, answered with the temporary-error reply.
C16_MalformedIsRetried ==
    \A i \in Invocations :
        (response[i] # None /\ Malformed(response[i][1])) =>
            /\ reply_text[i] = None
            /\ pc[i] # "respond"
            /\ posts[i] < MAX_API_RETRIES =>
                   /\ pc[i] \in {"sleep", "post", "cancelled"}
                   /\ raised[i] = None
                   /\ pc[i] = "sleep" =>
                          /\ attempt[i] = posts[i]
                          /\ wake[i] # None
                          /\ last_error[i] # None
                          /\ last_error[i][1].cls \in {"ValueError", "KeyError"}
                   /\ pc[i] = "post" => attempt[i] = posts[i] + 1
            /\ posts[i] = MAX_API_RETRIES =>
                   /\ pc[i] \in {"except", "done"}
                   /\ raised[i] # None
                   /\ raised[i][1].cls = "Exception"
                   /\ raised[i][1].detail.cls \in {"ValueError", "KeyError"}
                   /\ pc[i] = "done" => replies[i] = <<TemporaryErrorReply>>

\* C16: a first attempt was answered with a malformed body and the
\* invocation has gone on to its second attempt.
C16_Witness ==
    \E i \in Invocations :
        /\ pc[i] = "post"
        /\ attempt[i] = 2 /\ posts[i] = 1
        /\ response[i] # None
        /\ Malformed(response[i][1])

\* out is the text c cut after its first Len(out) - Len(tail) characters
\* and followed by tail
CutWith(out, c, tail) ==
    /\ Len(out) >= Len(tail)
    /\ Len(out) - Len(tail) <= Len(c)
    /\ out = SubSeq(c, 1, Len(out) - Len(tail)) \o tail

\* C17: when attempt k of a call was answered with a well-formed completion,
\* call_deepseek_api has returned that completion's text after exactly k
\* requests, with no sleep pending, and the one reply of the invocation is
\* that text trimmed: the stripped text itself when it fits
\* MAX_RESPONSE_LENGTH ("hello" for "hello"), else a prefix of it followed
\* by the truncation marker or the ellipsis.
C17_SuccessIsDelivered ==
    \A i \in Invocations :
        (response[i] # None /\ response[i][1].kind = "ok") =>
            LET c == strip(response[i][1].content) IN
            /\ pc[i] \in {"respond", "done"}
            /\ reply_text[i] = Some(response[i][1].content)
            /\ posts[i] = attempt[i]
            /\ posts[i] <= MAX_API_RETRIES
            /\ wake[i] = None
            /\ raised[i] = None
            /\ pc[i] = "respond" => replies[i] = <<>>
            /\ pc[i] = "done" =>
                   /\ Len(replies[i]) = 1
                   /\ replies[i][1].kind = "completion"
                   /\ Len(c) <= MAX_RESPONSE_LENGTH => replies[i][1].text = c
                   /\ c = Hello => replies[i][1].text = Hello
                   /\ Len(c) > MAX_RESPONSE_LENGTH =>
                          \/ CutWith(replies[i][1].text, c, Marker)
                          \/ CutWith(replies[i][1].text, c, Ellipsis)

\* C17: two attempts failed, the third was answered with " hello\n", and
\* the invocation ended with the reply "hello" after three requests.
C17_Witness ==
    \E i \in Invocations :
        /\ pc[i] = "done"
        /\ posts[i] = 3 /\ attempt[i] = 3
        /\ reply_text[i] = Some(<<" ">> \o Hello \o <<"\n">>)
        /\ replies[i] = <<[kind |-> "completion", text |-> Hello]>>

\* C18: for a stripped text longer than max_len, with no code fence in its
\* first max_len characters and a paragraph break within its first
\* max_len - 10 characters, safe_trim returns the text up to the last
\* paragraph break that lies within those first max_len - 10 characters,
\* followed by the truncation marker.
C18_CutAtLastBreakInMargin ==
    trim_out # None =>
        LET c == strip(trim_text)
            inMargin == Occurrences(SubSeq(c, 1, trim_max - 10), ParaBreak)
        IN  (/\ trim_max >= 10
             /\ Len(c) > trim_max
             /\ ~Contains(SubSeq(c, 1, trim_max), Fence)
             /\ inMargin # {}) =>
                LET p == CHOOSE j \in inMargin : \A k \in inMargin : k <= j
                IN  trim_out[1] = SubSeq(c, 1, p - 1) \o Marker

\* C19: a cancellation during a POST or a backoff sleep is never taken for
\* the failure of an attempt (it is neither stored as last_error nor raised
\* as, or inside, the exception call_deepseek_api ends with); the step that
\* cancels an invocation leaves it with no sleep pending, no further
\* request, no reply, the limiter's table and lock as they were and the lock
\* not with the invocation; and a cancelled invocation does nothing more.
C19_CancellationStops ==
    [][\A i \in Invocations :
         /\ last_error'[i] # Some(Cancelled)
         /\ raised'[i] # Some(Cancelled)
         /\ raised'[i] # Some(Exhausted(Cancelled))
         /\ (pc'[i] = "cancelled" /\ pc[i] # "cancelled") =>
                /\ pc[i] \in {"post", "sleep"}
                /\ wake'[i] = None
                /\ posts'[i] = posts[i]
                /\ replies'[i] = <<>>
                /\ user_requests' = user_requests
                /\ lock' = lock
                /\ lock' # Some(i)
         /\ pc[i] = "cancelled" => pc'[i] \in {"cancelled", "idle"}]_vars

\* C19: an invocation was cancelled after two failed attempts; its user's
\* record is in the table and the lock is free.
C19_Witness ==
    \E i \in Invocations :
        /\ pc[i] = "cancelled"
        /\ posts[i] = 2
        /\ replies[i] = <<>>
        /\ user[i][1] \in DOMAIN user_requests
        /\ lock = None

\* the table of a limiter that has served user u alone: what the calls of u
\* have left in the limiter that never sweeps
SoloTable(u) == [x \in DOMAIN ref_requests \cap {u} |-> ref_requests[x]]

\* C20: every check_rate_limit call for a user returns what a limiter that
\* has served that user alone returns for the user's calls at the same
\* instants, whatever calls were made for other users in between; and no
\* step of an invocation changes or drops the record of another user that
\* is younger than RETENTION.
C20_UsersIndependent ==
    [][\A i \in Invocations :
         /\ LeavesLimiter(i) =>
                (allowed'[i] = Some(TRUE)) <=>
                    RefAllows(SoloTable(user[i][1]), user[i][1], now[i][1])
         /\ (pc'[i] # pc[i] /\ user[i] # None) =>
                \A u \in DOMAIN user_requests \ {user[i][1]} :
                    clock - user_requests[u] < RETENTION =>
                        /\ u \in DOMAIN user_requests'
                        /\ user_requests'[u] = user_requests[u]]_vars

\* C20: user A was accepted, then user B was accepted inside A's cooldown,
\* then A was refused, still inside the cooldown of its own first call.
C20_Witness ==
    \E k, i, j \in Invocations :
        /\ pc[k] = "checked" /\ pc[i] = "checked" /\ pc[j] = "checked"
        /\ user[k] = user[j] /\ user[i] # user[k]
        /\ allowed[k] = Some(TRUE)
        /\ allowed[i] = Some(TRUE)
        /\ allowed[j] = Some(FALSE)
        /\ now[k][1] < now[i][1] /\ now[i][1] < now[j][1]
        /\ before[j] = now[k]
        /\ user_requests[user[k][1]] = now[k][1]
        /\ user_requests[user[i][1]] = now[i][1]

====
